---- MODULE Spec2Model ----
(***************************************************************************)
(* NeuroView SMART EEG: the Trial/View Controller (ViewerStep), the        *)
(* Spectrogram view, the annotation list and the session's persistence     *)
(* (App.persistState, savePatientState, saveToDirectory).                  *)
(*                                                                         *)
(* Conventions of the model                                                *)
(*  - a text (the value of an <input>, a note, an id) is a tuple of        *)
(*    one-character strings, so that parseInt, parseFloat, trim and        *)
(*    toString are computed character by character;                        *)
(*  - a gain is a fixed-point number in tenths (1.5 is 15): the gain       *)
(*    texts of the model carry at most one fractional digit;               *)
(*  - an optional value (EEGState.gain) is <<>> when undefined and <<v>>   *)
(*    when it holds v;                                                     *)
(*  - rows of the sample matrix are numbered from 0 as in the source; the  *)
(*    sequences of TLA+ are indexed from 1.                                *)
(***************************************************************************)
EXTENDS Integers, Sequences, FiniteSets, TLC

\* ------------------------------------------------------------------ bounds
\* Milliseconds that pass in one Tick of the clock.
TickMs == 250
\* Last value of the millisecond clock (Date.now) the model explores.
MaxNow == 750
\* Largest number of annotations in the viewer's list.
MaxAnnotations == 2
\* Largest number of persistState calls in flight without a settings folder.
MaxPending == 1

\* Rows the result array of computeSpectrogram can take before the engine
\* fails to grow it.
HeapRows == 12

\* ------------------------------------------------------- program constants
\* useDebounce(tempScale, 500) / useDebounce(tempDuration, 500)
DebounceDelay == 500
\* const nFft = 256 in Spectrogram.specData
nFft == 256

\* ------------------------------------------------------------------- texts
Digits == <<"0", "1", "2", "3", "4", "5", "6", "7", "8", "9">>

IsDigit(c) == \E d \in 1..10 : Digits[d] = c

DigitVal(c) == (CHOOSE d \in 1..10 : Digits[d] = c) - 1

\* White space as String.prototype.trim and the number parsers see it.
IsSpace(c) == c \in {" ", "\t", "\n"}

RECURSIVE TrimStart(_)
TrimStart(t) ==
    IF t # <<>> /\ IsSpace(Head(t)) THEN TrimStart(Tail(t)) ELSE t

RECURSIVE TrimEnd(_)
TrimEnd(t) ==
    IF t # <<>> /\ IsSpace(t[Len(t)]) THEN TrimEnd(SubSeq(t, 1, Len(t) - 1)) ELSE t

\* A test of the note that forgets to trim it.
TrimNothing(t) == t

\* String.prototype.trim
Trim(t) == TrimEnd(TrimStart(t))

\* The longest prefix of t made of digits.
RECURSIVE DigitPrefix(_)
DigitPrefix(t) ==
    IF t # <<>> /\ IsDigit(Head(t)) THEN <<Head(t)>> \o DigitPrefix(Tail(t)) ELSE <<>>

\* Value of a tuple of digits, most significant first; acc is the value so far.
RECURSIVE DigitsValue(_, _)
DigitsValue(ds, acc) ==
    IF ds = <<>> THEN acc ELSE DigitsValue(Tail(ds), 10 * acc + DigitVal(Head(ds)))

NaN == [nan |-> TRUE, val |-> 0]

Num(v) == [nan |-> FALSE, val |-> v]

\* The text after an optional sign, and the sign itself.
Unsigned(t) == IF t # <<>> /\ Head(t) \in {"+", "-"} THEN Tail(t) ELSE t

SignOf(t) == IF t # <<>> /\ Head(t) = "-" THEN -1 ELSE 1

\* parseInt(text): leading white space is skipped, an optional sign, then the
\* digits up to the first character that is not one; NaN when there is none.
ParseInt(text) ==
    LET s  == TrimStart(text)
        ds == DigitPrefix(Unsigned(s))
    IN  IF ds = <<>> THEN NaN ELSE Num(SignOf(s) * DigitsValue(ds, 0))

\* parseFloat(text), in tenths: white space, sign, integer digits, then an
\* optional "." and fraction digits; NaN when there is no digit at all.
ParseFloat(text) ==
    LET s    == TrimStart(text)
        u    == Unsigned(s)
        ip   == DigitPrefix(u)
        rest == SubSeq(u, Len(ip) + 1, Len(u))
        fp   == IF rest # <<>> /\ Head(rest) = "." THEN DigitPrefix(Tail(rest)) ELSE <<>>
        frac == IF fp = <<>> THEN 0 ELSE DigitVal(fp[1])
    IN  IF ip = <<>> /\ fp = <<>> THEN NaN
        ELSE Num(SignOf(s) * (10 * DigitsValue(ip, 0) + frac))

\* The decimal digits of a natural number.
RECURSIVE NatToString(_)
NatToString(n) ==
    IF n < 10 THEN <<Digits[n + 1]>>
    ELSE NatToString(n \div 10) \o <<Digits[(n % 10) + 1]>>

\* Number.prototype.toString of an integer.
IntToString(n) == IF n < 0 THEN <<"-">> \o NatToString(-n) ELSE NatToString(n)

\* Number.prototype.toString of a gain held in tenths.
GainToString(g) ==
    LET a == IF g < 0 THEN -g ELSE g
        body == NatToString(a \div 10) \o
                (IF a % 10 = 0 THEN <<>> ELSE <<".", Digits[(a % 10) + 1]>>)
    IN  IF g < 0 THEN <<"-">> \o body ELSE body

\* ------------------------------------------------------------------- state
VARIABLES
    appState,           \* App: useState<EEGState>
    settingsDirHandle,  \* App: the settings folder is connected
    pending,            \* persistState calls in flight, oldest first
    idbRecord,          \* IndexedDB: the patient_data record of the patient
    fsFile,             \* settings folder: the patient's JSON file
    dataLen,            \* number of rows of appState.fullData (ViewerStep data)
    now,                \* Date.now()
    currentTrial,       \* ViewerStep state
    annotations,
    newNote,
    selectedType,
    yScale,
    tempScale,
    debouncedScale,     \* useDebounce(tempScale, 500): debouncedValue
    scaleTimer,         \* useDebounce(tempScale, 500): ms since setTimeout, or NoTimer
    tempDuration,
    debouncedDuration,  \* useDebounce(tempDuration, 500): debouncedValue
    durationTimer,      \* useDebounce(tempDuration, 500): ms since setTimeout, or NoTimer
    viewMode,
    spectrogramChannel,
    isScrollMode,
    specView,           \* what the spectrogram pane shows
    trace,              \* the last step: the handler it ran (for the handlers the
                        \* properties are about), its text argument and the session
                        \* callbacks it invoked, in order
    scaleEditAge,       \* ms since the last edit of the gain text, or NoEdit
    frame,              \* what the last step drew and computed
    tooltip,            \* EEGCanvas state
    paneWidth,          \* width in px of the pane EEGCanvas fills in paged mode
    call                \* an application of a function of utils/dsp.ts

appVars    == <<appState, settingsDirHandle, pending, idbRecord, fsFile, dataLen>>
annVars    == <<annotations, newNote, selectedType>>
scaleVars  == <<yScale, tempScale, debouncedScale, scaleTimer, scaleEditAge>>
durVars    == <<tempDuration, debouncedDuration, durationTimer>>
viewVars   == <<currentTrial, viewMode, spectrogramChannel, isScrollMode, specView>>
canvasVars == <<frame, tooltip, paneWidth>>
vars       == <<appVars, now, annVars, scaleVars, durVars, viewVars, trace, canvasVars, call>>

NoTimer == 0 - 1
NoEdit  == 0 - 1
Undefined == <<>>
Some(v) == <<v>>
NoRecord == [written |-> FALSE]

PatientId == "p1"
Filename  == "rec.csv"
AnnotationTypes == {"normal", "artifact", "seizure", "other"}

\* -------------------------------------------------------------- input sets
\* (rows of the matrix, sampling rate) of the loaded file
DataConfigs == {<<12, 1>>, <<300, 100>>, <<1000, 100>>}
\* trial durations ConfigStep hands over (parseInt(..) || 1)
InitDurations == {2, 5}
\* gain values a session carries when the viewer mounts
InitGains == {Undefined, Some(20)}
\* values of the gain <input type="number">
GainTexts == {<<>>, <<"1">>, <<"2">>, <<"1", ".", "5">>}
\* values of the window <input type="number">
DurationTexts == {<<>>, <<"0">>, <<"2">>, <<"5">>, <<"2", ".", "5">>}
\* values of the note <textarea>
NoteTexts == {<<>>, <<" ">>, <<"a", " ">>}
\* Pixels of the pointer, from the left edge of the container
PointerXs == {49, 50, 51, 550, 1048, 1049}
\* Widths of the pane
PaneWidths == {570, 1068}
DefaultPaneWidth == CHOOSE w \in PaneWidths : \A v \in PaneWidths : v <= w
\* No function of utils/dsp.ts is applied
NoCall == [fn |-> "", args |-> <<>>, result |-> <<>>]
\* annotation types the model selects
TypeChoices == {"normal", "seizure"}
\* channels of the loaded file (config.channelCount)
ChannelCount == 2

\* ------------------------------------------------------------ the matrix
\* Row r (from 0) of the matrix: channelCount values, recognisable by r.
Row(r) == [c \in 1..ChannelCount |-> IF c = 1 THEN r ELSE 0 - r]

\* appState.fullData
Data == [i \in 1..dataLen |-> Row(i - 1)]

\* Array.prototype.slice(start, end) for 0 <= start, 0 <= end
Slice(arr, start, end) ==
    LET e == IF end > Len(arr) THEN Len(arr) ELSE end
    IN  IF start >= e THEN <<>> ELSE SubSeq(arr, start + 1, e)

Min(a, b) == IF a < b THEN a ELSE b
Max(a, b) == IF a > b THEN a ELSE b

\* Math.ceil(n / d) for n >= 0, d > 0
CeilDiv(n, d) == (n + d - 1) \div d

\* ------------------------------------------------ ViewerStep derived values
pointsPerTrialOf(config) == config.samplingRate * config.trialDurationSec

totalTrialsOf(config, len) == CeilDiv(len, pointsPerTrialOf(config))

pointsPerTrial == pointsPerTrialOf(appState.config)
totalTrials == totalTrialsOf(appState.config, dataLen)

\* A trial window that stops one row early.
currentTrialDataSliceShort(scroll, trial, ppt) ==
    IF scroll THEN Data
    ELSE LET startIndex == trial * ppt
             endIndex == Min(startIndex + ppt - 1, Len(Data))
         IN  Slice(Data, startIndex, endIndex)

\* useMemo currentTrialDataSlice, for the given state values
currentTrialDataSliceOf(scroll, trial, ppt) ==
    IF scroll THEN Data
    ELSE LET startIndex == trial * ppt
             endIndex == Min(startIndex + ppt, Len(Data))
         IN  Slice(Data, startIndex, endIndex)

currentTrialDataSlice ==
    currentTrialDataSliceOf(isScrollMode, currentTrial, pointsPerTrial)

\* row[spectrogramChannel] || 0
ChannelValue(row, ch) == IF ch + 1 \in DOMAIN row THEN row[ch + 1] ELSE 0

\* useMemo spectrogramDataSeries
spectrogramDataSeriesOf(mode, slice, ch) ==
    IF mode # "spectrogram" THEN <<>>
    ELSE [i \in 1..Len(slice) |-> ChannelValue(slice[i], ch)]

spectrogramDataSeries ==
    spectrogramDataSeriesOf(viewMode, currentTrialDataSlice, spectrogramChannel)

\* ------------------------------------------------------------ spectrogram
\* A loop that also starts a window wherever a sample is left.
RECURSIVE WindowStartsPadded(_, _, _, _)
WindowStartsPadded(i, n, windowSize, step) ==
    IF i < n
    THEN <<i>> \o WindowStartsPadded(i + step, n, windowSize, step)
    ELSE <<>>

\* The starts of the sliding windows of computeSpectrogram:
\* for (let i = 0; i <= signal.length - windowSize; i += step)
RECURSIVE WindowStarts(_, _, _, _)
WindowStarts(i, n, windowSize, step) ==
    IF i <= n - windowSize
    THEN <<i>> \o WindowStarts(i + step, n, windowSize, step)
    ELSE <<>>

RECURSIVE Pow2From(_, _)
Pow2From(p, n) == IF p >= n THEN p ELSE Pow2From(2 * p, n)

\* Math.pow(2, Math.ceil(Math.log2(n))) for n >= 1
Pow2Ceil(n) == Pow2From(1, n)

\* The number of values computeMagnitude returns for a chunk of len samples:
\* for (let i = 0; i < pow2 / 2; i++)
binsOf(len) == CeilDiv(Pow2Ceil(len), 2)

\* computeSpectrogram: one grid row per window; a row is kept as the start of
\* its window and its number of frequency bins.
computeSpectrogram(signal, sampleRate, windowSize, overlap) ==
    LET step   == windowSize - overlap
        starts == WindowStarts(0, Len(signal), windowSize, step)
    IN  [magnitudes |-> [t \in 1..Len(starts) |->
                            [start |-> starts[t], bins |-> binsOf(windowSize)]],
         times      |-> [t \in 1..Len(starts) |-> (t - 1) * step],
         numFreqBins |-> windowSize \div 2]

\* The values of the transform of an all-zero signal. A number is kept as what
\* it is known to be: "0", "NaN", "finite" (a window weight), the floor
\* "20*log10(1e-6)", "Infinity" and "-Infinity".

\* hanningWindow(size): 0.5 * (1 - Math.cos((2 * Math.PI * i) / (size - 1))),
\* where 0 / 0 is NaN for size = 1
hanningWindow(size) == [j \in 1..size |-> IF size = 1 THEN "NaN" ELSE "finite"]

\* chunk.push(signal[i + j] * windowFunc[j]) for signal[i + j] = 0
zeroChunk(windowFunc) ==
    [j \in 1..Len(windowFunc) |-> IF windowFunc[j] = "NaN" THEN "NaN" ELSE "0"]

\* computeMagnitude of a chunk of zeros and NaNs: the transform of zeros is
\* zeros, and a NaN sample reaches every bin.
computeMagnitude(chunk) ==
    [b \in 1..binsOf(Len(chunk)) |->
        IF \E j \in 1..Len(chunk) : chunk[j] = "NaN" THEN "NaN" ELSE "0"]

\* Math.log10(m + 1e-6) * 20
logMagOf(m) == IF m = "0" THEN "20*log10(1e-6)" ELSE "NaN"

\* computeSpectrogram of n zeros: the grid of values, maxMag and minMag
\* (if (val > maxMag) maxMag = val; if (val < minMag) minMag = val: a NaN
\* moves neither).
computeSpectrogramOfZeros(n, windowSize, overlap) ==
    LET starts  == WindowStarts(0, n, windowSize, windowSize - overlap)
        logMags == [b \in 1..binsOf(windowSize) |->
                       logMagOf(computeMagnitude(zeroChunk(hanningWindow(windowSize)))[b])]
        seen    == Len(starts) > 0 /\ \E b \in 1..Len(logMags) : logMags[b] # "NaN"
    IN  [magnitudes |-> [t \in 1..Len(starts) |-> logMags],
         maxMag     |-> IF seen THEN "20*log10(1e-6)" ELSE "-Infinity",
         minMag     |-> IF seen THEN "20*log10(1e-6)" ELSE "Infinity"]

\* Spectrogram.specData: null for an empty series
specDataOf(series, sampleRate) ==
    IF Len(series) = 0 THEN [null |-> TRUE, magnitudes |-> <<>>]
    ELSE [null |-> FALSE,
          magnitudes |-> computeSpectrogram(series, sampleRate, nFft, nFft \div 2).magnitudes]

\* The draw effect of Spectrogram: it reads magnitudes[0].length, a TypeError
\* when the grid has no row.
SpectrogramEffect(specData) ==
    IF specData.null THEN "processing"
    ELSE IF Len(specData.magnitudes) = 0 THEN "fault"
    ELSE "drawn"

\* What the spectrogram pane of visualizationContent shows.
SpecViewOf(mode, series, sampleRate) ==
    IF mode # "spectrogram" THEN "hidden"
    ELSE IF Len(series) > 0 THEN SpectrogramEffect(specDataOf(series, sampleRate))
    ELSE "nodata"

\* An error thrown by an effect unmounts the whole tree (no error boundary).
Mounted == specView # "fault"

\* The render that follows a change of the slice, the view mode or the channel:
\* the two memos are computed in turn, then the pane is drawn.
Render ==
    \E slice \in {currentTrialDataSliceOf(isScrollMode', currentTrial',
                                          pointsPerTrialOf(appState'.config))} :
      \E series \in {spectrogramDataSeriesOf(viewMode', slice, spectrogramChannel')} :
        specView' = SpecViewOf(viewMode', series, appState'.config.samplingRate)

\* The record of a step of handler op, called with the text arg, before any callback.
Ran(op, arg) ==
    [op |-> op, arg |-> arg,
     onGainChange |-> <<>>, onConfigChange |-> <<>>, onUpdateAnnotations |-> <<>>]

\* The record of a step of any other handler.
Quiet == Ran("", <<>>)

\* ------------------------------------------------------------- EEGCanvas
\* padding = { top: 20, bottom: 30, left: 50, right: 20 }
paddingLeft == 50
paddingRight == 20

\* No tooltip: useState(null)
NoTooltip == <<>>

\* What a step ran of the renderers: the waveform draw of EEGCanvas (with the
\* tick interval of its time axis, 0 when it drew none) and computeSpectrogram.
NoFrame == [on |-> TRUE, draw |-> FALSE, tick |-> 0, stft |-> FALSE]

\* The renderers are not watched: the frame stays as it is. The specifications
\* that are not about rendering run this way.
Unwatched == [on |-> FALSE, draw |-> FALSE, tick |-> 0, stft |-> FALSE]

\* The frame of a step that renders nothing.
Idle == IF frame.on THEN NoFrame ELSE frame


\* A quotient kept exact, as numerator and denominator.
Ratio(num, den) == [num |-> num, den |-> den]

\* A lookup that truncates instead of rounding.
MathTrunc(num, den) == num \div den

\* Math.round of num / den for den > 0: the nearest integer, a tie goes up.
MathRound(num, den) ==
    LET n == 2 * num + den
        d == 2 * den
    IN  IF n >= 0 THEN n \div d ELSE 0 - ((0 - n + d - 1) \div d)

\* A start offset that follows the trial in either paging mode.
startTimeOfTrial(scroll, trial, config) == trial * config.trialDurationSec

\* startTime={isScrollMode ? 0 : currentTrial * config.trialDurationSec}
startTimeOf(scroll, trial, config) ==
    IF scroll THEN 0 ELSE trial * config.trialDurationSec

startTime == startTimeOf(isScrollMode, currentTrial, appState.config)

\* The width of the <div> around EEGCanvas: fixed in scroll mode, else the pane's
scrollWidthOf(len, rate) == Min(Max(1000, (len * 100) \div rate), 32000)

rectWidth ==
    IF isScrollMode
    THEN scrollWidthOf(Len(currentTrialDataSlice), appState.config.samplingRate)
    ELSE paneWidth

\* EEGCanvas is rendered in the raw view over a slice that is not empty.
canvasShownOf(mode, sliceLen) == mode = "raw" /\ sliceLen > 0

\* Spectrogram is rendered in the spectrogram view over a series that is not empty.
spectrogramShownOf(mode, seriesLen) == mode = "spectrogram" /\ seriesLen > 0

\* let tickInterval = 1; if (totalTime > 10) = 2; if (totalTime > 30) = 5,
\* with totalTime = totalPoints / samplingRate
tickIntervalOf(totalPoints, samplingRate) ==
    IF totalPoints > 30 * samplingRate THEN 5
    ELSE IF totalPoints > 10 * samplingRate THEN 2
    ELSE 1

\* The ticks of the time axis of a draw:
\* for (let sec = 0; sec <= Math.ceil(totalTime); sec += tickInterval), a tick
\* being skipped if (sampleIndex >= totalPoints && sec < totalTime), drawn at
\* effectiveIndex = Math.min(sampleIndex, totalPoints - 1) and labelled
\* sec + startTime.
timeAxisTicks(totalPoints, samplingRate, start) ==
    LET tickInterval == tickIntervalOf(totalPoints, samplingRate)
        secs == {sec \in 0..CeilDiv(totalPoints, samplingRate) : sec % tickInterval = 0}
        skipped(sec) == /\ sec * samplingRate >= totalPoints
                        /\ sec * samplingRate < totalPoints
    IN  {[sec            |-> sec,
          effectiveIndex |-> Min(sec * samplingRate, totalPoints - 1),
          label          |-> sec + start] : sec \in {k \in secs : ~skipped(k)}}

\* The frame of the mount of ViewerStep: EEGCanvas draws the first slice.
MountFrame ==
    [on   |-> TRUE,
     draw |-> canvasShownOf(viewMode, Len(currentTrialDataSlice)),
     tick |-> IF canvasShownOf(viewMode, Len(currentTrialDataSlice))
              THEN tickIntervalOf(Len(currentTrialDataSlice), appState.config.samplingRate)
              ELSE 0,
     stft |-> FALSE]

\* The state of ViewerStep and the props App hands it: a change of any of them
\* renders ViewerStep again.
viewerState ==
    <<appState, currentTrial, annotations, newNote, selectedType, yScale,
      tempScale, debouncedScale, tempDuration, debouncedDuration,
      viewMode, spectrogramChannel, isScrollMode>>

\* const colors = [...] in the body of ViewerStep: a new array on every render
colorsChanges(rendered) == rendered

\* useMemo currentTrialDataSlice returns another array: a dependency changed
\* and the result is not the data prop both times.
sliceChanges ==
    /\ <<currentTrial', pointsPerTrialOf(appState'.config), isScrollMode'>>
          # <<currentTrial, pointsPerTrial, isScrollMode>>
    /\ ~(isScrollMode /\ isScrollMode')

\* useMemo spectrogramDataSeries returns another array
seriesChanges ==
    sliceChanges \/ viewMode' # viewMode \/ spectrogramChannel' # spectrogramChannel

\* The dependencies of the draw effect: [data, config, finalHeight, yScale, channelColors]
drawDepsChange(rendered) ==
    \/ sliceChanges
    \/ appState'.config # appState.config
    \/ yScale' # yScale
    \/ colorsChanges(rendered)

\* An effect that ignores its dependency list.
canvasDrawsAlways(depsChange) == TRUE

\* useEffect(draw, deps): the draw runs when a dependency changed
canvasDraws(depsChange) == depsChange

\* A transform computed in every render of Spectrogram.
spectrogramComputesAlways(dataChanges, rateChanges) == TRUE

\* useMemo(() => computeSpectrogram(...), [data, sampleRate])
spectrogramComputes(dataChanges, rateChanges) == dataChanges \/ rateChanges

\* The commit that follows a handler of ViewerStep: what was drawn and computed,
\* and the tooltip, which lives as long as EEGCanvas stays mounted.
Paint ==
    /\ IF frame.on
       THEN \E rendered \in {viewerState' # viewerState} :
             \E sliceLen \in {Len(currentTrialDataSliceOf(isScrollMode', currentTrial',
                                        pointsPerTrialOf(appState'.config)))} :
              \E seriesLen \in {IF viewMode' = "spectrogram" THEN sliceLen ELSE 0} :
                LET draws == /\ rendered
                             /\ canvasShownOf(viewMode', sliceLen)
                             /\ specView' # "fault"
                             /\ \/ ~canvasShownOf(viewMode, Len(currentTrialDataSlice))
                                \/ canvasDraws(drawDepsChange(rendered))
                    stft  == /\ rendered
                             /\ spectrogramShownOf(viewMode', seriesLen)
                             /\ spectrogramComputes(seriesChanges,
                                   appState'.config.samplingRate # appState.config.samplingRate)
                IN  frame' = [on   |-> TRUE,
                              draw |-> draws,
                              tick |-> IF draws
                                       THEN tickIntervalOf(sliceLen,
                                                           appState'.config.samplingRate)
                                       ELSE 0,
                              stft |-> stft]
       ELSE frame' = frame
    /\ IF tooltip = NoTooltip
       THEN tooltip' = NoTooltip
       ELSE \E stays \in {/\ specView' # "fault"
                          /\ canvasShownOf(viewMode, Len(currentTrialDataSlice))
                          /\ canvasShownOf(viewMode',
                                Len(currentTrialDataSliceOf(isScrollMode', currentTrial',
                                        pointsPerTrialOf(appState'.config))))} :
              tooltip' = IF stays THEN tooltip ELSE NoTooltip

\* handleMouseMove at pixel x of the container (e.clientX - rect.left)
handleMouseMove(x, data, width) ==
    LET usableWidth == width - paddingLeft - paddingRight
        totalPoints == Len(data)
        relativeX   == x - paddingLeft
        index       == MathRound(relativeX * (totalPoints - 1), usableWidth)
    IN  IF totalPoints = 0 THEN tooltip' = tooltip
        ELSE IF x < paddingLeft \/ x > width - paddingRight THEN tooltip' = NoTooltip
        ELSE IF index >= 0 /\ index < totalPoints
        THEN tooltip' = <<[x      |-> Ratio(paddingLeft * (totalPoints - 1) + index * usableWidth,
                                            totalPoints - 1),
                           time   |-> Ratio(startTime * appState.config.samplingRate + index,
                                            appState.config.samplingRate),
                           values |-> data[index + 1]]>>
        ELSE tooltip' = tooltip

\* onMouseMove of the container of EEGCanvas: only EEGCanvas renders again,
\* with the props it had.
MouseMove ==
    /\ Mounted
    /\ \E data \in {currentTrialDataSlice} :
         /\ canvasShownOf(viewMode, Len(data))
         /\ \E width \in {IF isScrollMode
                           THEN scrollWidthOf(Len(data), appState.config.samplingRate)
                           ELSE paneWidth} :
              \E x \in PointerXs :
                /\ handleMouseMove(x, data, width)
                /\ trace' = Ran("handleMouseMove", IntToString(x))
    /\ frame' = IF frame.on
                THEN [NoFrame EXCEPT !.draw = (tooltip' # tooltip \/ tooltip' # NoTooltip)
                                                /\ canvasDraws(FALSE)]
                ELSE frame
    /\ UNCHANGED <<appVars, now, annVars, scaleVars, durVars, viewVars, paneWidth, call>>

\* onMouseLeave: setTooltip(null)
MouseLeave ==
    /\ Mounted
    /\ canvasShownOf(viewMode, Len(currentTrialDataSlice))
    /\ tooltip' = NoTooltip
    /\ trace' = Ran("handleMouseLeave", <<>>)
    /\ frame' = IF frame.on
                THEN [NoFrame EXCEPT !.draw = (tooltip' # tooltip \/ tooltip' # NoTooltip)
                                                /\ canvasDraws(FALSE)]
                ELSE frame
    /\ UNCHANGED <<appVars, now, annVars, scaleVars, durVars, viewVars, paneWidth, call>>

\* The window is resized: the pane gets another width. No state of a component
\* changes, so nothing renders.
Resize ==
    /\ Mounted
    /\ \E w \in PaneWidths :
         /\ w # paneWidth
         /\ paneWidth' = w
    /\ trace' = Quiet
    /\ frame' = Idle
    /\ UNCHANGED <<appVars, now, annVars, scaleVars, durVars, viewVars, tooltip, call>>

\* ------------------------------------------------------------ utils/dsp.ts
\* Inputs of getHeatmapColor are the values k / HeatSteps, k an integer from
\* HeatPad steps below 0 to HeatPad steps above 1.
HeatSteps == 100
HeatPad == 3

\* A clamp that only stops the value from below.
clampFromBelow(k, den) == Max(0, k)

\* const clamped = Math.max(0, Math.min(1, value)), for value = k / den
clampUnit(k, den) == Max(0, Min(den, k))

\* A palette whose red falls over the second segment.
heatmapRgbRedFalls(k, den) ==
    LET c == clampUnit(k, den)
    IN  IF 4 * c < den
        THEN [r |-> 0, g |-> 0, b |-> (4 * c * 255) \div den]
        ELSE IF 2 * c < den
        THEN [r |-> ((2 * den - 4 * c) * 255) \div den,
              g |-> 0,
              b |-> 255 - (((4 * c - den) * 200) \div den)]
        ELSE IF 4 * c < 3 * den
        THEN [r |-> 255, g |-> ((4 * c - 2 * den) * 255) \div den, b |-> 0]
        ELSE [r |-> 255, g |-> 255, b |-> ((4 * c - 3 * den) * 255) \div den]

\* The r, g, b of getHeatmapColor(k / den): Math.floor((clamped - s) * 4 * 255)
\* over the four segments
heatmapRgb(k, den) ==
    LET c == clampUnit(k, den)
    IN  IF 4 * c < den
        THEN [r |-> 0, g |-> 0, b |-> (4 * c * 255) \div den]
        ELSE IF 2 * c < den
        THEN [r |-> ((4 * c - den) * 255) \div den,
              g |-> 0,
              b |-> 255 - (((4 * c - den) * 200) \div den)]
        ELSE IF 4 * c < 3 * den
        THEN [r |-> 255, g |-> ((4 * c - 2 * den) * 255) \div den, b |-> 0]
        ELSE [r |-> 255, g |-> 255, b |-> ((4 * c - 3 * den) * 255) \div den]

\* `rgb(${r},${g},${b})`
RgbText(rgb) ==
    <<"r", "g", "b", "(">> \o IntToString(rgb.r) \o <<",">> \o IntToString(rgb.g)
        \o <<",">> \o IntToString(rgb.b) \o <<")">>

\* getHeatmapColor(k / den)
getHeatmapColor(k, den) == RgbText(heatmapRgb(k, den))

\* Longest signal of the small windows, and the small window sizes
MaxSignal == 9
WindowSizes == {2, 4}

\* A signal of n samples
SignalOf(n) == [i \in 1..n |-> i]

\* Cells of a parsed line: a number, a word, a number
Cells == <<(<<"1">>), (<<"x">>), (<<"2", ".", "5">>)>>
MaxCols == 3
MaxRows == 2

\* A parsed line of len cells
CellRow(len) == [j \in 1..len |-> Cells[((j - 1) % Len(Cells)) + 1]]

\* Papa.parse(text, { skipEmptyLines: true }).data: lines of one cell or more
RawTables ==
    UNION {{[i \in 1..n |-> CellRow(lens[i])] : lens \in [1..n -> 1..MaxCols]} : n \in 0..MaxRows}

\* const val = parseFloat(cell); !isNaN(val) ? val : 0   (in tenths)
cellValue(cell) == IF ParseFloat(cell).nan THEN 0 ELSE ParseFloat(cell).val

\* processFullData, rows-are-time: the cells of a line from skipCols on, until
\* expectedChannels values are taken (one value is taken before the test)
numRowOf(row, skipCols, expectedChannels) ==
    [j \in 1..Min(Max(expectedChannels, 1), Len(row) - skipCols) |->
        cellValue(row[skipCols + j])]

\* processFullData over the lines Papa.parse returned
processFullData(rawRows, skipRows, skipCols, expectedChannels, orientation) ==
    IF orientation = "rows-are-time"
    THEN LET dataRows == Slice(rawRows, skipRows, Len(rawRows))
             kept     == SelectSeq(dataRows, LAMBDA row : Len(row) > skipCols)
         IN  [i \in 1..Len(kept) |-> numRowOf(kept[i], skipCols, expectedChannels)]
    ELSE LET channelRows == Slice(rawRows, skipRows, skipRows + expectedChannels)
         IN  IF Len(channelRows) = 0 THEN <<>>
             ELSE LET timePointsCount == Len(channelRows[1]) - skipCols
                  IN  IF timePointsCount <= 0 THEN <<>>
                      ELSE [t \in 1..timePointsCount |->
                              [ch \in 1..Len(channelRows) |->
                                  IF t + skipCols <= Len(channelRows[ch])
                                  THEN cellValue(channelRows[ch][t + skipCols])
                                  ELSE 0]]

\* The applications the functions are checked on
HeatCalls ==
    {[fn |-> "getHeatmapColor", args |-> <<a, b>>, result |-> <<>>] :
        a \in (0 - HeatPad)..(HeatSteps + HeatPad),
        b \in (0 - HeatPad)..(HeatSteps + HeatPad)}

SpectrogramCalls ==
    {[fn |-> "computeSpectrogram", args |-> <<n, w, o>>, result |-> <<>>] :
        n \in 0..MaxSignal, w \in WindowSizes, o \in 0..3}
    \cup {[fn |-> "computeSpectrogram", args |-> <<n, nFft, nFft \div 2>>, result |-> <<>>] :
        n \in {255, 256, 383, 384, 1000}}

\* computeSpectrogram on signals of zeros: the fourth argument is the sample value
ZeroSignalCalls ==
    {[fn |-> "computeSpectrogram", args |-> <<n, w, o, 0>>, result |-> <<>>] :
        n \in 0..MaxSignal, w \in 1..4, o \in 0..3}
    \cup {[fn |-> "computeSpectrogram", args |-> <<n, nFft, nFft \div 2, 0>>, result |-> <<>>] :
        n \in {255, 256, 1000}}

ParseCalls ==
    {[fn |-> "processFullData", args |-> <<rows, sr, sc, ch, o>>, result |-> <<>>] :
        rows \in RawTables, sr \in 0..1, sc \in 0..1, ch \in 1..MaxCols,
        o \in {"rows-are-time", "rows-are-channels"}}

ApplyGetHeatmapColor ==
    /\ call.fn = "getHeatmapColor"
    /\ call.result = <<>>
    /\ call' = [call EXCEPT !.result = <<getHeatmapColor(call.args[1], HeatSteps),
                                         getHeatmapColor(call.args[2], HeatSteps)>>]
    /\ UNCHANGED <<appVars, now, annVars, scaleVars, durVars, viewVars, trace, canvasVars>>

ApplyComputeSpectrogram ==
    /\ call.fn = "computeSpectrogram"
    /\ Len(call.args) = 3
    /\ call.result = <<>>
    /\ call.args[2] - call.args[3] > 0
    /\ call' = [call EXCEPT !.result =
                    <<computeSpectrogram(SignalOf(call.args[1]), 1, call.args[2], call.args[3])>>]
    /\ UNCHANGED <<appVars, now, annVars, scaleVars, durVars, viewVars, trace, canvasVars>>

ApplyComputeSpectrogramOfZeros ==
    /\ call.fn = "computeSpectrogram"
    /\ Len(call.args) = 4
    /\ call.result = <<>>
    /\ call.args[2] - call.args[3] > 0
    /\ call' = [call EXCEPT !.result =
                    <<computeSpectrogram([i \in 1..call.args[1] |-> call.args[4]], 1,
                                         call.args[2], call.args[3]),
                      computeSpectrogramOfZeros(call.args[1], call.args[2], call.args[3])>>]
    /\ UNCHANGED <<appVars, now, annVars, scaleVars, durVars, viewVars, trace, canvasVars>>

ApplyProcessFullData ==
    /\ call.fn = "processFullData"
    /\ call.result = <<>>
    /\ call' = [call EXCEPT !.result =
                    <<processFullData(call.args[1], call.args[2], call.args[3],
                                      call.args[4], call.args[5])>>]
    /\ UNCHANGED <<appVars, now, annVars, scaleVars, durVars, viewVars, trace, canvasVars>>

\* The persistState calls the handlers may have in flight: with a settings
\* folder every call has a second write, and one more call is let in so that
\* the writes of two calls interleave.
PendingLimit == IF settingsDirHandle THEN MaxPending + 1 ELSE MaxPending

\* ------------------------------------------------------------ persistence
\* persistState(patientId, state): the call is in flight until its writes are done
persistState(state) == Append(pending, [state |-> state, pc |-> "idb"])

\* savePatientState: the record it puts in the patient_data store
savedData(state) ==
    [written     |-> TRUE,
     patientId   |-> PatientId,
     filename    |-> state.filename,
     config      |-> state.config,
     fullData    |-> dataLen,
     annotations |-> state.annotations]

\* persistState: the lightweight object it writes to the settings folder
lightweightState(state) ==
    [written     |-> TRUE,
     patientId   |-> PatientId,
     filename    |-> state.filename,
     config      |-> state.config,
     annotations |-> state.annotations,
     status      |-> state.status,
     gain        |-> state.gain]

RemoveAt(seq, i) == SubSeq(seq, 1, i - 1) \o SubSeq(seq, i + 1, Len(seq))

\* await savePatientState(patientId, state): the open requests of IndexedDB are
\* served in the order they were made, so the oldest call writes first.
SavePatientStateStep ==
    \E i \in 1..Len(pending) :
        /\ pending[i].pc = "idb"
        /\ \A j \in 1..(i - 1) : pending[j].pc # "idb"
        /\ idbRecord' = savedData(pending[i].state)
        /\ pending' = IF settingsDirHandle
                      THEN [pending EXCEPT ![i].pc = "fs"]
                      ELSE RemoveAt(pending, i)
        /\ trace' = Quiet
        /\ frame' = Idle
        /\ UNCHANGED <<appState, settingsDirHandle, fsFile, dataLen, now,
                       annVars, scaleVars, durVars, viewVars, tooltip, paneWidth, call>>

\* await saveToDirectory(settingsDirHandle, filename, lightweightState)
SaveToDirectoryStep ==
    \E i \in 1..Len(pending) :
        /\ pending[i].pc = "fs"
        /\ fsFile' = lightweightState(pending[i].state)
        /\ pending' = RemoveAt(pending, i)
        /\ trace' = Quiet
        /\ frame' = Idle
        /\ UNCHANGED <<appState, settingsDirHandle, idbRecord, dataLen, now,
                       annVars, scaleVars, durVars, viewVars, tooltip, paneWidth, call>>

\* A session that takes the new list and does not persist it.
handleUpdateAnnotationsUnsaved(anns) ==
    /\ appState' = [appState EXCEPT !.annotations = anns]
    /\ pending' = pending

\* handleUpdateConfig / handleUpdateAnnotations / handleUpdateGain:
\* setAppState(prev => { next = {...prev, field}; persistState(id, next); next })
handleUpdateConfig(newConfig) ==
    LET next == [appState EXCEPT !.config = newConfig]
    IN  /\ appState' = next
        /\ pending' = persistState(next)

handleUpdateAnnotations(anns) ==
    LET next == [appState EXCEPT !.annotations = anns]
    IN  /\ appState' = next
        /\ pending' = persistState(next)

handleUpdateGain(gain) ==
    LET next == [appState EXCEPT !.gain = Some(gain)]
    IN  /\ appState' = next
        /\ pending' = persistState(next)

\* ------------------------------------------------------------------- Init
\* initialGain || 1, in tenths
InitialScale(gain) == IF gain = Undefined \/ gain[1] = 0 THEN 10 ELSE gain[1]

\* The state when ViewerStep mounts after handleStartAnalysis: the session is
\* viewing, its persistState call is in flight, both debounce timers are armed.
InitWith(dataConfigs, durations, gains, handles) ==
    \E dc \in dataConfigs, dur \in durations, g \in gains, h \in handles :
        LET config == [samplingRate |-> dc[2], channelCount |-> ChannelCount,
                       skipRows |-> 0, skipCols |-> 0,
                       trialDurationSec |-> dur, orientation |-> "rows-are-time"]
            state  == [status |-> "viewing", config |-> config, patient |-> PatientId,
                       filename |-> Filename, annotations |-> <<>>, gain |-> g]
        IN  /\ appState = state
            /\ settingsDirHandle = h
            /\ pending = <<[state |-> state, pc |-> "idb"]>>
            /\ idbRecord = NoRecord
            /\ fsFile = NoRecord
            /\ dataLen = dc[1]
            /\ now = 0
            /\ currentTrial = 0
            /\ annotations = state.annotations
            /\ newNote = <<>>
            /\ selectedType = "normal"
            /\ yScale = InitialScale(g)
            /\ tempScale = GainToString(InitialScale(g))
            /\ debouncedScale = GainToString(InitialScale(g))
            /\ scaleTimer = 0
            /\ scaleEditAge = NoEdit
            /\ tempDuration = IntToString(dur)
            /\ debouncedDuration = IntToString(dur)
            /\ durationTimer = 0
            /\ viewMode = "raw"
            /\ spectrogramChannel = 0
            /\ isScrollMode = FALSE
            /\ specView = "hidden"
            /\ trace = Ran("mount", <<>>)
            /\ tooltip = NoTooltip
            /\ paneWidth = DefaultPaneWidth

Init == InitWith(DataConfigs, InitDurations, InitGains, BOOLEAN) /\ call = NoCall /\ frame = Unwatched

\* -------------------------------------------------------------- navigation
\* setCurrentTrial(c => Math.max(0, c - 1))
handlePrev == currentTrial' = Max(0, currentTrial - 1)

\* A next that is not clamped.
handleNextUnclamped == currentTrial' = currentTrial + 1

\* setCurrentTrial(c => Math.min(totalTrials - 1, c + 1))
handleNext == currentTrial' = Min(totalTrials - 1, currentTrial + 1)

\* The prev button: disabled at trial 0.
ClickPrev ==
    /\ Mounted
    /\ currentTrial # 0
    /\ handlePrev
    /\ trace' = Ran("handlePrev", <<>>)
    /\ UNCHANGED <<appVars, now, annVars, scaleVars, durVars,
                   viewMode, spectrogramChannel, isScrollMode>>
    /\ Render
    /\ UNCHANGED <<paneWidth, call>>
    /\ Paint

\* The next button: disabled at the last trial.
ClickNext ==
    /\ Mounted
    /\ currentTrial # totalTrials - 1
    /\ handleNext
    /\ trace' = Ran("handleNext", <<>>)
    /\ UNCHANGED <<appVars, now, annVars, scaleVars, durVars,
                   viewMode, spectrogramChannel, isScrollMode>>
    /\ Render
    /\ UNCHANGED <<paneWidth, call>>
    /\ Paint

\* keydown ArrowLeft: the listener is registered again whenever totalTrials changes
KeyArrowLeft ==
    /\ Mounted
    /\ handlePrev
    /\ trace' = Ran("handlePrev", <<>>)
    /\ UNCHANGED <<appVars, now, annVars, scaleVars, durVars,
                   viewMode, spectrogramChannel, isScrollMode>>
    /\ Render
    /\ UNCHANGED <<paneWidth, call>>
    /\ Paint

\* keydown ArrowRight
KeyArrowRight ==
    /\ Mounted
    /\ handleNext
    /\ trace' = Ran("handleNext", <<>>)
    /\ UNCHANGED <<appVars, now, annVars, scaleVars, durVars,
                   viewMode, spectrogramChannel, isScrollMode>>
    /\ Render
    /\ UNCHANGED <<paneWidth, call>>
    /\ Paint

\* AnnotationList onJump(ann.trialIndex) -> jumpToTrial(idx)
jumpToTrial ==
    /\ Mounted
    /\ \E k \in 1..Len(annotations) :
         /\ currentTrial' = annotations[k].trialIndex
         /\ trace' = Ran("jumpToTrial", <<>>)
    /\ UNCHANGED <<appVars, now, annVars, scaleVars, durVars,
                   viewMode, spectrogramChannel, isScrollMode>>
    /\ Render
    /\ UNCHANGED <<paneWidth, call>>
    /\ Paint

\* ---------------------------------------------------------------- view
SetViewMode ==
    /\ Mounted
    /\ \E m \in {"raw", "spectrogram"} :
         /\ m # viewMode
         /\ viewMode' = m
    /\ trace' = Quiet
    /\ UNCHANGED <<appVars, now, annVars, scaleVars, durVars,
                   currentTrial, spectrogramChannel, isScrollMode>>
    /\ Render
    /\ UNCHANGED <<paneWidth, call>>
    /\ Paint

\* The channel <select>, shown in the spectrogram view only.
SetSpectrogramChannel ==
    /\ Mounted
    /\ viewMode = "spectrogram"
    /\ \E c \in 0..(appState.config.channelCount - 1) :
         /\ c # spectrogramChannel
         /\ spectrogramChannel' = c
    /\ trace' = Quiet
    /\ UNCHANGED <<appVars, now, annVars, scaleVars, durVars,
                   currentTrial, viewMode, isScrollMode>>
    /\ Render
    /\ UNCHANGED <<paneWidth, call>>
    /\ Paint

\* setIsScrollMode(!isScrollMode)
ToggleScrollMode ==
    /\ Mounted
    /\ isScrollMode' = ~isScrollMode
    /\ trace' = Quiet
    /\ UNCHANGED <<appVars, now, annVars, scaleVars, durVars,
                   currentTrial, viewMode, spectrogramChannel>>
    /\ Render
    /\ UNCHANGED <<paneWidth, call>>
    /\ Paint

\* -------------------------------------------------------------- annotations
\* The note <textarea> onChange
SetNewNote ==
    /\ Mounted
    /\ \E t \in NoteTexts :
         /\ t # newNote
         /\ newNote' = t
    /\ trace' = Quiet
    /\ UNCHANGED <<appVars, now, annotations, selectedType, scaleVars, durVars, viewVars>>
    /\ UNCHANGED <<paneWidth, call>>
    /\ Paint

\* The type <select> onChange
SetSelectedType ==
    /\ Mounted
    /\ \E t \in TypeChoices :
         /\ t # selectedType
         /\ selectedType' = t
    /\ trace' = Quiet
    /\ UNCHANGED <<appVars, now, annotations, newNote, scaleVars, durVars, viewVars>>
    /\ UNCHANGED <<paneWidth, call>>
    /\ Paint

\* An annotation stamped with the trial index instead of its start time.
newAnnUnscaled ==
    [id         |-> IntToString(now),
     trialIndex |-> currentTrial,
     timestamp  |-> currentTrial,
     note       |-> newNote,
     type       |-> selectedType]

\* The annotation addAnnotation builds
newAnn ==
    [id         |-> IntToString(now),
     trialIndex |-> currentTrial,
     timestamp  |-> currentTrial * appState.config.trialDurationSec,
     note       |-> newNote,
     type       |-> selectedType]

\* addAnnotation, from the Add Note button or the Enter key of the textarea
addAnnotation ==
    /\ Mounted
    /\ IF Trim(newNote) = <<>>
       THEN /\ trace' = Ran("addAnnotation", newNote)
            /\ UNCHANGED <<appVars, annVars>>
       ELSE LET updated == Append(annotations, newAnn)
            IN  /\ Len(annotations) < MaxAnnotations
                /\ Len(pending) < PendingLimit
                /\ annotations' = updated
                /\ handleUpdateAnnotations(updated)
                /\ newNote' = <<>>
                /\ trace' = [Ran("addAnnotation", newNote)
                                EXCEPT !.onUpdateAnnotations = <<updated>>]
                /\ UNCHANGED <<settingsDirHandle, idbRecord, fsFile, dataLen, selectedType>>
    /\ UNCHANGED <<now, scaleVars, durVars, viewVars>>
    /\ UNCHANGED <<paneWidth, call>>
    /\ Paint

\* annotations.filter(a => a.id !== id)
WithoutId(anns, id) == SelectSeq(anns, LAMBDA a : a.id # id)

\* deleteAnnotation(id), from the Remove button of an entry of the list
deleteAnnotation ==
    /\ Mounted
    /\ Len(pending) < PendingLimit
    /\ \E k \in 1..Len(annotations) :
         LET id      == annotations[k].id
             updated == WithoutId(annotations, id)
         IN  /\ annotations' = updated
             /\ handleUpdateAnnotations(updated)
             /\ trace' = [Ran("deleteAnnotation", id)
                             EXCEPT !.onUpdateAnnotations = <<updated>>]
    /\ UNCHANGED <<settingsDirHandle, idbRecord, fsFile, dataLen, now,
                   newNote, selectedType, scaleVars, durVars, viewVars>>
    /\ UNCHANGED <<paneWidth, call>>
    /\ Paint

\* ----------------------------------------------------------------- debounce
\* A debounce that lets a running timer run on when the value changes.
KeepTimer(timer) == IF timer < 0 THEN 0 ELSE timer

\* useDebounce: a new value clears the running timer and sets a new one
RearmTimer(timer) == 0

\* One more TickMs on a running timer (kept up to the delay, when it is due).
Elapse(timer) == IF timer < 0 THEN timer ELSE Min(DebounceDelay, timer + TickMs)

\* The gain <input> onChange, shown in the raw view only
SetTempScale ==
    /\ Mounted
    /\ viewMode = "raw"
    /\ \E t \in GainTexts :
         /\ t # tempScale
         /\ tempScale' = t
    /\ scaleTimer' = RearmTimer(scaleTimer)
    /\ scaleEditAge' = 0
    /\ trace' = Quiet
    /\ UNCHANGED <<appVars, now, annVars, yScale, debouncedScale, durVars, viewVars>>
    /\ UNCHANGED <<paneWidth, call>>
    /\ Paint

\* The window <input> onChange
SetTempDuration ==
    /\ Mounted
    /\ \E t \in DurationTexts :
         /\ t # tempDuration
         /\ tempDuration' = t
    /\ durationTimer' = RearmTimer(durationTimer)
    /\ trace' = Quiet
    /\ UNCHANGED <<appVars, now, annVars, scaleVars, debouncedDuration, viewVars>>
    /\ UNCHANGED <<paneWidth, call>>
    /\ Paint

\* The gain effect's test: !isNaN(val) && val !== yScale
ScaleApplies(val, current) == ~val.nan /\ val.val # current

\* A duration test without the sign check.
DurationAppliesAnySign(val, current) == ~val.nan /\ val.val # current

\* The duration effect's test: !isNaN(val) && val > 0 && val !== config.trialDurationSec
DurationApplies(val, current) == ~val.nan /\ val.val > 0 /\ val.val # current

\* The timer of useDebounce(tempScale, 500) fires: setDebouncedValue(value), and
\* the gain effect runs on the new debouncedScale.
DebounceScaleFire ==
    /\ Mounted
    /\ scaleTimer >= DebounceDelay
    /\ scaleTimer' = NoTimer
    /\ debouncedScale' = tempScale
    /\ LET val == ParseFloat(tempScale)
       IN  IF ScaleApplies(val, yScale)
           THEN /\ Len(pending) < PendingLimit
                /\ yScale' = val.val
                /\ handleUpdateGain(val.val)
                /\ trace' = [Ran("debounceScale", tempScale)
                                EXCEPT !.onGainChange = <<val.val>>]
           ELSE /\ trace' = Ran("debounceScale", tempScale)
                /\ UNCHANGED <<yScale, appState, pending>>
    /\ UNCHANGED <<settingsDirHandle, idbRecord, fsFile, dataLen, now, annVars,
                   tempScale, scaleEditAge, durVars, viewVars>>
    /\ UNCHANGED <<paneWidth, call>>
    /\ Paint

\* The timer of useDebounce(tempDuration, 500) fires, and the duration effect
\* runs on the new debouncedDuration.
DebounceDurationFire ==
    /\ Mounted
    /\ durationTimer >= DebounceDelay
    /\ durationTimer' = NoTimer
    /\ debouncedDuration' = tempDuration
    /\ LET val == ParseInt(tempDuration)
       IN  IF DurationApplies(val, appState.config.trialDurationSec)
           THEN LET newConfig == [appState.config EXCEPT !.trialDurationSec = val.val]
                IN  /\ Len(pending) < PendingLimit
                    /\ handleUpdateConfig(newConfig)
                    /\ trace' = [Ran("debounceDuration", tempDuration)
                                    EXCEPT !.onConfigChange = <<newConfig>>]
           ELSE /\ trace' = Ran("debounceDuration", tempDuration)
                /\ UNCHANGED <<appState, pending>>
    /\ UNCHANGED <<settingsDirHandle, idbRecord, fsFile, dataLen, now, annVars,
                   scaleVars, tempDuration,
                   currentTrial, viewMode, spectrogramChannel, isScrollMode>>
    /\ Render
    /\ UNCHANGED <<paneWidth, call>>
    /\ Paint

\* Time passes: TickMs more on the clock and on the running timers.
Tick ==
    /\ now + TickMs <= MaxNow
    /\ now' = now + TickMs
    /\ scaleTimer' = Elapse(scaleTimer)
    /\ durationTimer' = Elapse(durationTimer)
    /\ scaleEditAge' = Elapse(scaleEditAge)
    /\ trace' = Quiet
    /\ frame' = Idle
    /\ UNCHANGED <<appVars, annVars, yScale, tempScale, debouncedScale,
                   tempDuration, debouncedDuration, viewVars, tooltip, paneWidth, call>>

\* ---------------------------------------------------------------- session
\* config of useState<EEGState>({...}) in App, and of handleReset
InitialConfig ==
    [samplingRate |-> 256, channelCount |-> 8, skipRows |-> 0, skipCols |-> 0,
     trialDurationSec |-> 5, orientation |-> "rows-are-time"]

\* The state App is constructed with: no file, no gain.
InitialAppState(patient) ==
    [status |-> "idle", config |-> InitialConfig, patient |-> patient,
     filename |-> "", annotations |-> <<>>, gain |-> Undefined]

\* ViewerStep is rendered while a file is viewed.
Viewing == appState.status = "viewing"

\* The state of ViewerStep and EEGCanvas at a mount with the session `state`;
\* armed says whether the two debounce effects have run (they have at a mount,
\* and their clean-up has at an unmount).
ViewerMounts(state, armed) ==
    /\ currentTrial' = 0
    /\ annotations' = state.annotations
    /\ newNote' = <<>>
    /\ selectedType' = "normal"
    /\ yScale' = InitialScale(state.gain)
    /\ tempScale' = GainToString(InitialScale(state.gain))
    /\ debouncedScale' = GainToString(InitialScale(state.gain))
    /\ scaleTimer' = IF armed THEN 0 ELSE NoTimer
    /\ scaleEditAge' = NoEdit
    /\ tempDuration' = IntToString(state.config.trialDurationSec)
    /\ debouncedDuration' = IntToString(state.config.trialDurationSec)
    /\ durationTimer' = IF armed THEN 0 ELSE NoTimer
    /\ viewMode' = "raw"
    /\ spectrogramChannel' = 0
    /\ isScrollMode' = FALSE
    /\ specView' = "hidden"
    /\ tooltip' = NoTooltip
    /\ paneWidth' = DefaultPaneWidth
    /\ frame' = Idle

\* Close File: setAppState(prev => ({...prev, status: 'idle', config: {...},
\* patient: prev.patient, filename: '', rawText: '', fullData: [],
\* annotations: []})). The button is rendered unless the status is idle;
\* nothing is persisted. ViewerStep unmounts.
handleReset ==
    /\ appState.status # "idle"
    /\ appState' = [appState EXCEPT !.status = "idle",
                                    !.config = InitialConfig,
                                    !.filename = "",
                                    !.annotations = <<>>]
    /\ dataLen' = 0
    /\ ViewerMounts(appState', FALSE)
    /\ trace' = Ran("handleReset", <<>>)
    /\ UNCHANGED <<settingsDirHandle, pending, idbRecord, fsFile, now, call>>

\* A file is chosen on the idle screen and read: the session is configuring.
handleFileUpload ==
    /\ appState.status = "idle"
    /\ Len(pending) < PendingLimit
    /\ appState' = [appState EXCEPT !.status = "configuring", !.filename = Filename]
    /\ pending' = persistState(appState')
    /\ trace' = Ran("handleFileUpload", <<>>)
    /\ frame' = Idle
    /\ UNCHANGED <<settingsDirHandle, idbRecord, fsFile, dataLen, now, annVars,
                   scaleVars, durVars, viewVars, tooltip, paneWidth, call>>

\* handleStartAnalysis(parsedData, finalConfig, patientInfo) from ConfigStep:
\* {...appState, status: 'viewing', fullData, config, patient}, persisted;
\* ViewerStep mounts with initialGain = appState.gain.
handleStartAnalysis ==
    /\ appState.status = "configuring"
    /\ Len(pending) < PendingLimit
    /\ \E dc \in {<<12, 1>>}, dur \in InitDurations :
         /\ appState' = [appState EXCEPT
                            !.status = "viewing",
                            !.config = [InitialConfig EXCEPT
                                           !.samplingRate = dc[2],
                                           !.channelCount = ChannelCount,
                                           !.trialDurationSec = dur]]
         /\ dataLen' = dc[1]
    /\ pending' = persistState(appState')
    /\ ViewerMounts(appState', TRUE)
    /\ trace' = Ran("handleStartAnalysis", <<>>)
    /\ UNCHANGED <<settingsDirHandle, idbRecord, fsFile, now, call>>

\* ------------------------------------------------------------------- Next
Next ==
    \/ ClickPrev \/ ClickNext \/ KeyArrowLeft \/ KeyArrowRight \/ jumpToTrial
    \/ SetViewMode \/ SetSpectrogramChannel \/ ToggleScrollMode
    \/ SetNewNote \/ SetSelectedType \/ addAnnotation \/ deleteAnnotation
    \/ SetTempScale \/ SetTempDuration \/ DebounceScaleFire \/ DebounceDurationFire
    \/ Tick \/ SavePatientStateStep \/ SaveToDirectoryStep

Spec == Init /\ [][Next]_vars

\* ----------------------------------------------------- partial specifications
\* The whole viewer is too large to enumerate at once; each specification below
\* runs a part of the handlers, over the same variables and with the same
\* definitions.

\* Paging, view mode and channel over matrices longer than one FFT window.
InitView == InitWith(DataConfigs, InitDurations, {Undefined}, {FALSE}) /\ call = NoCall /\ frame = Unwatched

NextView ==
    \/ ClickPrev \/ ClickNext \/ KeyArrowLeft \/ KeyArrowRight
    \/ SetViewMode \/ SetSpectrogramChannel \/ ToggleScrollMode

SpecView == InitView /\ [][NextView]_vars

\* Paging while the trial duration is edited.
InitPaging == InitWith({<<12, 1>>}, InitDurations, {Undefined}, {FALSE}) /\ call = NoCall /\ frame = Unwatched

NextPaging ==
    \/ ClickPrev \/ ClickNext \/ KeyArrowLeft \/ KeyArrowRight
    \/ ToggleScrollMode
    \/ SetTempDuration \/ DebounceDurationFire
    \/ Tick \/ SavePatientStateStep

SpecPaging == InitPaging /\ [][NextPaging]_vars

\* The two debounced inputs, the session callbacks they end in and the writes
\* of the session.
InitDebounce == InitWith({<<12, 1>>}, {5}, InitGains, {TRUE}) /\ call = NoCall /\ frame = Unwatched

NextDebounce ==
    \/ SetTempScale \/ DebounceScaleFire
    \/ SetTempDuration \/ DebounceDurationFire
    \/ Tick \/ SavePatientStateStep \/ SaveToDirectoryStep

SpecDebounce == InitDebounce /\ [][NextDebounce]_vars

\* Last clock value of the annotation specification.
MaxNowAnnotations == 250

\* The annotation list and the session that persists it.
InitAnnotations == InitWith({<<10, 1>>}, {5}, {Undefined}, {FALSE}) /\ call = NoCall /\ frame = Unwatched

NextAnnotations ==
    \/ SetNewNote \/ SetSelectedType \/ addAnnotation \/ deleteAnnotation
    \/ KeyArrowLeft \/ KeyArrowRight \/ jumpToTrial
    \/ (now < MaxNowAnnotations /\ Tick)
    \/ SavePatientStateStep

SpecAnnotations == InitAnnotations /\ [][NextAnnotations]_vars

\* Trial durations of the recordings the waveform is drawn from
CanvasDurations == {5, 10, 20, 30}

\* The waveform of EEGCanvas, its time axis and its pointer lookup, with the
\* renderers watched.
InitCanvas ==
    /\ \/ InitWith({<<1000, 100>>}, {5}, {Undefined}, {FALSE})
       \/ InitWith({<<40, 1>>}, CanvasDurations, {Undefined}, {FALSE})
    /\ call = NoCall
    /\ frame = MountFrame

NextCanvas ==
    \/ MouseMove \/ MouseLeave \/ Resize
    \/ KeyArrowLeft \/ KeyArrowRight \/ ToggleScrollMode

SpecCanvas == InitCanvas /\ [][NextCanvas]_vars

\* The waveform while the rest of the viewer is edited: the note, the type, the
\* annotation list and the two inputs before their values settle, with the
\* renderers watched.
InitRedraw ==
    /\ InitWith({<<10, 1>>}, {5}, {Undefined}, {FALSE})
    /\ call = NoCall
    /\ frame = MountFrame

NextRedraw ==
    \/ SetNewNote \/ SetSelectedType
    \/ (annotations = <<>> /\ addAnnotation) \/ deleteAnnotation
    \/ SetTempScale \/ SetTempDuration
    \/ SavePatientStateStep

SpecRedraw == InitRedraw /\ [][NextRedraw]_vars

\* The spectrogram of two trials of one FFT window each while the viewer is
\* paged, switched and edited, with the renderers watched: notes and annotations
\* are edited in spectrogram view, the gain is edited once (in raw view, where
\* its input is) and the clock runs while that edit settles.
InitStft ==
    /\ InitWith({<<2 * nFft, nFft>>}, {1}, {Undefined}, {FALSE})
    /\ call = NoCall
    /\ frame = MountFrame

NextStft ==
    \/ SetViewMode \/ SetSpectrogramChannel
    \/ KeyArrowRight \/ ToggleScrollMode
    \/ (viewMode = "spectrogram" /\ scaleTimer = NoTimer /\ SetNewNote)
    \/ (viewMode = "spectrogram" /\ scaleTimer = NoTimer /\ annotations = <<>> /\ addAnnotation)
    \/ (viewMode = "spectrogram" /\ scaleTimer = NoTimer /\ deleteAnnotation)
    \/ (tempScale = debouncedScale /\ newNote = <<>> /\ yScale = InitialScale(Undefined)
            /\ SetTempScale /\ tempScale' = <<"2">>)
    \/ DebounceScaleFire
    \/ (scaleTimer # NoTimer /\ Tick)
    \/ SavePatientStateStep

SpecStft == InitStft /\ [][NextStft]_vars

\* The sliding-window loop of computeSpectrogram, one iteration at a time:
\* for (let i = 0; i <= signal.length - windowSize; i += step) result.push(..)
\* over signals of n samples, with windowSize w and overlap o.
LoopCalls ==
    {[fn |-> "computeSpectrogram", args |-> <<n, w, o>>, result |-> <<>>,
      pc |-> "loop", i |-> 0, rows |-> 0] :
        n \in 0..MaxSignal, w \in 2..4, o \in 0..5}

\* One iteration: a row is pushed and i moves by step = windowSize - overlap.
SlidingWindowStep ==
    /\ call.fn = "computeSpectrogram"
    /\ call.pc = "loop"
    /\ call.i <= call.args[1] - call.args[2]
    /\ call.rows < HeapRows
    /\ call' = [call EXCEPT !.i = call.i + (call.args[2] - call.args[3]),
                            !.rows = call.rows + 1]
    /\ UNCHANGED <<appVars, now, annVars, scaleVars, durVars, viewVars, trace, canvasVars>>

\* result.push fails: the array cannot grow any further and the call ends
\* with the engine's error instead of a value.
SlidingWindowOverflow ==
    /\ call.fn = "computeSpectrogram"
    /\ call.pc = "loop"
    /\ call.i <= call.args[1] - call.args[2]
    /\ call.rows = HeapRows
    /\ call' = [call EXCEPT !.pc = "out of memory"]
    /\ UNCHANGED <<appVars, now, annVars, scaleVars, durVars, viewVars, trace, canvasVars>>

\* The loop condition is false: the grid is returned.
SlidingWindowReturn ==
    /\ call.fn = "computeSpectrogram"
    /\ call.pc = "loop"
    /\ call.i > call.args[1] - call.args[2]
    /\ call' = [call EXCEPT !.pc = "returned", !.result = <<call.rows>>]
    /\ UNCHANGED <<appVars, now, annVars, scaleVars, durVars, viewVars, trace, canvasVars>>

InitLoop ==
    /\ InitWith({<<12, 1>>}, {5}, {Undefined}, {FALSE})
    /\ frame = Unwatched
    /\ call \in LoopCalls

NextLoop ==
    \/ SlidingWindowStep
    \/ SlidingWindowOverflow
    \/ SlidingWindowReturn

\* The call runs on the one thread of the page and runs to its end: an
\* iteration that can be taken is taken.
SpecLoop == InitLoop /\ [][NextLoop]_vars /\ WF_vars(NextLoop)

\* A session over several files: a file is viewed, its gain and its list are
\* edited, the file is closed and another one is opened.
InitSession == InitWith({<<12, 1>>}, InitDurations, InitGains, {FALSE}) /\ call = NoCall /\ frame = Unwatched

NextSession ==
    \/ handleReset
    \/ handleFileUpload
    \/ handleStartAnalysis
    \/ (Viewing /\ SetTempScale /\ tempScale' = <<"2">>)
    \/ (Viewing /\ DebounceScaleFire)
    \/ (Viewing /\ DebounceDurationFire)
    \/ (Viewing /\ KeyArrowRight)
    \/ (Viewing /\ annotations = <<>> /\ newNote = <<>> /\ addAnnotation)
    \/ (Viewing /\ Tick)
    \/ SavePatientStateStep

SpecSession == InitSession /\ [][NextSession]_vars

\* Annotations kept while the trial duration is edited: an annotation is added
\* on some trial, the duration input settles, and the list is used to jump.
InitRetime == InitWith({<<12, 1>>}, InitDurations, {Undefined}, {FALSE}) /\ call = NoCall /\ frame = Unwatched

NextRetime ==
    \/ KeyArrowRight \/ jumpToTrial
    \/ (annotations = <<>> /\ SetNewNote)
    \/ (annotations = <<>> /\ addAnnotation) \/ deleteAnnotation
    \/ SetTempDuration \/ DebounceDurationFire
    \/ (durationTimer # NoTimer /\ Tick)
    \/ SavePatientStateStep

SpecRetime == InitRetime /\ [][NextRetime]_vars

\* The functions of utils/dsp.ts, each applied once to an input drawn at the start.
InitDsp ==
    /\ InitWith({<<12, 1>>}, {5}, {Undefined}, {FALSE})
    /\ frame = Unwatched
    /\ \/ call \in HeatCalls
       \/ call \in SpectrogramCalls
       \/ call \in ZeroSignalCalls
       \/ call \in ParseCalls

NextDsp ==
    \/ ApplyGetHeatmapColor
    \/ ApplyComputeSpectrogram \/ ApplyComputeSpectrogramOfZeros
    \/ ApplyProcessFullData

SpecDsp == InitDsp /\ [][NextDsp]_vars

\* ================================================================ properties
\* When a handler named h ran in the step.
Did(h) == trace'.op = h

\* A text with nothing but white space in it (the empty text included).
IsBlank(t) == \A i \in 1..Len(t) : t[i] \in {" ", "\t", "\n"}

\* Rows a, a+1, .., b-1 of the matrix.
Rows(a, b) == [k \in 1..(b - a) |-> Row(a + k - 1)]

InRange(trial, config) == 0 <= trial /\ trial < totalTrialsOf(config, dataLen)

\* C1: when the selected-channel slice handed to the spectrogram view is
\* non-empty but shorter than the 256-sample window, computeSpectrogram returns
\* an empty grid and the view shows a no-data state, without a fault.
C1_ShortSliceShowsNoData ==
    (viewMode = "spectrogram"
        /\ 0 < Len(currentTrialDataSlice)
        /\ Len(currentTrialDataSlice) < nFft)
    => /\ computeSpectrogram(spectrogramDataSeries, appState.config.samplingRate,
                             nFft, nFft \div 2).magnitudes = <<>>
       /\ specView = "nodata"

\* C2: in paged mode with L = samplingRate * trialDurationSec > 0 and N rows,
\* totalTrials is ceil(N / L) and the slice of trial i, 0 <= i < totalTrials,
\* is rows [i*L, min((i+1)*L, N)); N = 1000 at 100 Hz and 5 s gives L = 500 and
\* two trials.
C2_TrialWindow ==
    (~isScrollMode /\ pointsPerTrial > 0) =>
        LET L == appState.config.samplingRate * appState.config.trialDurationSec
            N == dataLen
        IN  /\ totalTrials * L >= N
            /\ (totalTrials - 1) * L < N
            /\ \A i \in 0..(totalTrials - 1) :
                 currentTrialDataSliceOf(isScrollMode, i, pointsPerTrial)
                    = Rows(i * L, Min((i + 1) * L, N))
            /\ (0 <= currentTrial /\ currentTrial < totalTrials)
                 => currentTrialDataSlice
                        = Rows(currentTrial * L, Min((currentTrial + 1) * L, N))
            /\ (N = 1000 /\ appState.config.samplingRate = 100
                    /\ appState.config.trialDurationSec = 5)
                 => (pointsPerTrial = 500 /\ totalTrials = 2)

\* The second trial of the 1000-row matrix at 100 Hz and 5 s is on display.
C2_Witness ==
    /\ ~isScrollMode
    /\ dataLen = 1000
    /\ appState.config.samplingRate = 100
    /\ appState.config.trialDurationSec = 5
    /\ currentTrial = 1
    /\ Len(currentTrialDataSlice) = 500

\* C3: prev/next navigation is clamped to [0, totalTrials - 1]: prev at trial 0
\* stays at 0, next at the last trial stays there, and a prev or next from a
\* trial in range ends on a trial in range.
C3_NavigationClamped ==
    [][ /\ (Did("handlePrev") /\ currentTrial = 0) => currentTrial' = 0
        /\ (Did("handleNext") /\ currentTrial = totalTrials - 1)
              => currentTrial' = currentTrial
        /\ ((Did("handlePrev") \/ Did("handleNext")) /\ InRange(currentTrial, appState.config))
              => InRange(currentTrial', appState'.config) ]_vars

\* Next has run and the viewer stands on the last of several trials.
C3_Witness ==
    /\ trace.op = "handleNext"
    /\ totalTrials > 1
    /\ currentTrial = totalTrials - 1

\* A step that commits a gain: yScale changes or onGainChange is called.
GainCommitted == yScale' # yScale \/ trace'.onGainChange # <<>>

\* C4 as stated: every burst of gain edits ends, once settled, in exactly one
\* yScale update and one onGainChange call with the last value.
C4_EveryBurstAppliedOnce ==
    [][ (Did("debounceScale") /\ scaleEditAge # NoEdit /\ ~ParseFloat(tempScale).nan)
            => /\ yScale' # yScale
               /\ yScale' = ParseFloat(tempScale).val
               /\ trace'.onGainChange = <<ParseFloat(tempScale).val>> ]_vars

\* C4, amended: a gain is committed only when the settle interval has elapsed
\* since the last edit, it is the last value of the text, with one yScale
\* update and one onGainChange call; a settled value is committed exactly when
\* it parses to a number other than the committed gain, so at most once per
\* burst.
C4_Debounce ==
    [][ /\ GainCommitted
            => /\ Did("debounceScale")
               /\ scaleEditAge >= DebounceDelay
               /\ ~ParseFloat(tempScale).nan
               /\ yScale' = ParseFloat(tempScale).val
               /\ yScale' # yScale
               /\ trace'.onGainChange = <<yScale'>>
        /\ (Did("debounceScale") /\ ~ParseFloat(tempScale).nan
                /\ ParseFloat(tempScale).val # yScale)
            => GainCommitted
        /\ (Did("debounceScale") /\ ~GainCommitted)
            => (ParseFloat(tempScale).nan \/ ParseFloat(tempScale).val = yScale) ]_vars

\* A settled gain edit has just been committed.
C4_Witness ==
    /\ trace.op = "debounceScale"
    /\ trace.onGainChange = <<yScale>>
    /\ scaleEditAge >= DebounceDelay
    /\ tempScale = <<"1", ".", "5">>
    /\ yScale = 15

\* C5: a settled input is applied only if it validates (gain: the text parses
\* to a number; duration: to a positive integer); an empty or invalid settled
\* text leaves the committed gain and duration as they were and calls neither
\* onGainChange nor onConfigChange.
C5_OnlyValidApplied ==
    [][ /\ GainCommitted
            => /\ ~ParseFloat(debouncedScale').nan
               /\ yScale' = ParseFloat(debouncedScale').val
        /\ (appState'.config # appState.config \/ trace'.onConfigChange # <<>>)
            => /\ ~ParseInt(debouncedDuration').nan
               /\ ParseInt(debouncedDuration').val > 0
               /\ appState'.config.trialDurationSec = ParseInt(debouncedDuration').val
        /\ (Did("debounceScale") /\ ParseFloat(debouncedScale').nan)
            => /\ yScale' = yScale
               /\ appState' = appState
               /\ trace'.onGainChange = <<>>
               /\ trace'.onConfigChange = <<>>
        /\ (Did("debounceDuration")
                /\ (ParseInt(debouncedDuration').nan \/ ParseInt(debouncedDuration').val <= 0))
            => /\ yScale' = yScale
               /\ appState' = appState
               /\ trace'.onGainChange = <<>>
               /\ trace'.onConfigChange = <<>> ]_vars

\* The duration text "0" has settled and the committed duration is still 5.
C5_Witness ==
    /\ trace.op = "debounceDuration"
    /\ debouncedDuration = <<"0">>
    /\ trace.onConfigChange = <<>>
    /\ appState.config.trialDurationSec = 5

\* A step in which addAnnotation ran on a note that is not blank.
AddedNote == Did("addAnnotation") /\ ~IsBlank(newNote)

\* C6: addAnnotation with a non-empty note appends exactly one annotation with
\* trialIndex = currentTrial, timestamp = currentTrial * trialDurationSec
\* (trial 2 at 5 s gives 10), the entered note and the selected type; the
\* annotations already there are unchanged.
C6_AddAppendsOne ==
    [][ AddedNote
          => /\ Len(annotations') = Len(annotations) + 1
             /\ SubSeq(annotations', 1, Len(annotations)) = annotations
             /\ LET a == annotations'[Len(annotations')]
                IN  /\ a.trialIndex = currentTrial
                    /\ a.timestamp = currentTrial * appState.config.trialDurationSec
                    /\ a.note = newNote
                    /\ a.type = selectedType ]_vars

\* A second annotation has just been added, on trial 1 of 5-second trials.
C6_Witness ==
    /\ trace.op = "addAnnotation"
    /\ trace.onUpdateAnnotations # <<>>
    /\ Len(annotations) = 2
    /\ annotations[2].trialIndex = 1
    /\ annotations[2].timestamp = 5
    /\ annotations[2].type = "seizure"

\* C7: addAnnotation with an empty or whitespace-only note is a no-op: the
\* list is unchanged, onUpdateAnnotations is not called and nothing is
\* persisted.
C7_BlankNoteIsNoOp ==
    [][ (Did("addAnnotation") /\ IsBlank(newNote))
          => /\ annotations' = annotations
             /\ trace'.onUpdateAnnotations = <<>>
             /\ appState' = appState
             /\ pending' = pending
             /\ idbRecord' = idbRecord
             /\ fsFile' = fsFile ]_vars

\* addAnnotation has just run on a note of one space, with an annotation listed.
C7_Witness ==
    /\ trace.op = "addAnnotation"
    /\ trace.arg = <<" ">>
    /\ Len(annotations) = 1

\* C8: deleteAnnotation(id) removes the annotation created with that id and
\* nothing else; every other annotation remains, in order.
C8_DeleteRemovesOne ==
    [][ Did("deleteAnnotation")
          => \E k \in 1..Len(annotations) :
               /\ annotations[k].id = trace'.arg
               /\ annotations' = RemoveAt(annotations, k) ]_vars

\* C9: every successful add and every delete calls onUpdateAnnotations exactly
\* once with the list after the mutation, after which the session's list
\* equals the viewer's and a persist of that session state has been started.
C9_SessionFollowsViewer ==
    [][ (AddedNote \/ Did("deleteAnnotation"))
          => /\ trace'.onUpdateAnnotations = <<annotations'>>
             /\ appState'.annotations = annotations'
             /\ Len(pending') = Len(pending) + 1
             /\ SubSeq(pending', 1, Len(pending)) = pending
             /\ pending'[Len(pending')] = [state |-> appState', pc |-> "idb"] ]_vars

\* An annotation has just been deleted and the session was told the new list.
C9_Witness ==
    /\ trace.op = "deleteAnnotation"
    /\ trace.onUpdateAnnotations = <<annotations>>
    /\ appState.annotations = annotations
    /\ Len(annotations) = 1
    /\ Len(pending) = 1
    /\ pending[1].state.annotations = annotations

\* The session snapshots whose save to IndexedDB is due.
DueSnapshots == {pending[i].state : i \in {j \in 1..Len(pending) : pending[j].pc = "idb"}}

\* The session snapshots whose write to the settings folder is due.
DueFolderSnapshots == {pending[i].state : i \in {j \in 1..Len(pending) : pending[j].pc = "fs"}}

\* The record carries the config, the annotations and the gain of the snapshot.
Carries(record, state) ==
    /\ {"config", "annotations", "gain"} \subseteq DOMAIN record
    /\ record.config = state.config
    /\ record.annotations = state.annotations
    /\ record.gain = state.gain

\* C10: every snapshot handed to storage, the IndexedDB record written by
\* savePatientState and the JSON written to the settings folder, contains the
\* config, the annotations and the committed gain of the session.
C10_SnapshotComplete ==
    [][ /\ idbRecord' # idbRecord
            => \E state \in DueSnapshots : Carries(idbRecord', state)
        /\ fsFile' # fsFile
            => \E state \in DueFolderSnapshots : Carries(fsFile', state) ]_vars

\* The two effects of the viewer have nothing left to do between events.
EffectsSettled ==
    /\ ~ScaleApplies(ParseFloat(debouncedScale), yScale)
    /\ ~DurationApplies(ParseInt(debouncedDuration), appState.config.trialDurationSec)


\* The pixel of the pointer in the step of handleMouseMove.
PointerX == ParseInt(trace'.arg).val

\* The place in the matrix of the first row of the slice on display.
SliceStart == IF isScrollMode THEN 0 ELSE currentTrial * pointsPerTrial

\* C11: for a slice of n >= 2 samples and a pointer x with
\* left <= x <= width - right, the lookup reports the sample index
\* round((x - left) / xStep), xStep = usableWidth / (n - 1), which lies in
\* [0, n - 1], the time startOffset + index / samplingRate and the row of the
\* slice at that index; index 250 of 500 samples at 100 Hz from offset 0 is 2.5 s.
C11_PointerLookup ==
    [][ Did("handleMouseMove") =>
          \A n \in {Len(currentTrialDataSlice)} :
           \A width \in {IF isScrollMode
                          THEN scrollWidthOf(n, appState.config.samplingRate)
                          ELSE paneWidth} :
            LET W    == width - paddingLeft - paddingRight
                relX == PointerX - paddingLeft
                rate == appState.config.samplingRate
            IN  (n >= 2 /\ W > 0 /\ paddingLeft <= PointerX /\ PointerX <= width - paddingRight)
                => /\ tooltip' # NoTooltip
                   /\ \E i \in 0..(n - 1) :
                        /\ 2 * i * W - W <= 2 * relX * (n - 1)
                        /\ 2 * relX * (n - 1) < 2 * i * W + W
                        /\ tooltip'[1].time.num * rate
                              = (startTime * rate + i) * tooltip'[1].time.den
                        /\ tooltip'[1].x.num * (n - 1)
                              = (paddingLeft * (n - 1) + i * W) * tooltip'[1].x.den
                        /\ tooltip'[1].values = Row(SliceStart + i)
                        /\ (n = 500 /\ rate = 100 /\ startTime = 0 /\ i = 250)
                              => 2 * tooltip'[1].time.num = 5 * tooltip'[1].time.den ]_vars

\* The pointer is over sample 250 of 500 samples at 100 Hz: 2.5 s.
C11_Witness ==
    /\ trace.op = "handleMouseMove"
    /\ tooltip # NoTooltip
    /\ appState.config.samplingRate = 100
    /\ appState.config.trialDurationSec = 5
    /\ currentTrial = 0
    /\ ~isScrollMode
    /\ 2 * tooltip[1].time.num = 5 * tooltip[1].time.den
    /\ tooltip[1].values = Row(250)

\* The application of a function of utils/dsp.ts that has returned
Applied(fn) == call.fn = fn /\ call.result # <<>>

\* C12: computeSpectrogram returns one row per window start 0, step, 2*step, ...
\* with start + windowSize <= n and no other row, that is
\* floor((n - windowSize) / step) + 1 rows when n >= windowSize and none when
\* n < windowSize; no window reaches past the end of the signal.
C12_OneRowPerWholeWindow ==
    Applied("computeSpectrogram") =>
        LET n    == call.args[1]
            w    == call.args[2]
            step == call.args[2] - call.args[3]
            rows == call.result[1].magnitudes
        IN  /\ Len(rows) = IF n >= w THEN ((n - w) \div step) + 1 ELSE 0
            /\ \A t \in 1..Len(rows) :
                    /\ rows[t].start = (t - 1) * step
                    /\ rows[t].start + w <= n
            /\ \A k \in 0..n : k * step + w <= n => k + 1 <= Len(rows)

C12_Witness ==
    /\ Applied("computeSpectrogram")
    /\ call.args = <<1000, nFft, nFft \div 2>>
    /\ Len(call.result[1].magnitudes) = 6

\* The r, g, b written in a colour text "rgb(r,g,b)"
RgbOf(text) ==
    LET commas == {i \in 1..Len(text) : text[i] = ","}
        p1 == CHOOSE i \in commas : \A j \in commas : i <= j
        p2 == CHOOSE i \in commas : \A j \in commas : j <= i
    IN  [r |-> ParseInt(SubSeq(text, 5, p1 - 1)).val,
         g |-> ParseInt(SubSeq(text, p1 + 1, p2 - 1)).val,
         b |-> ParseInt(SubSeq(text, p2 + 1, Len(text) - 1)).val]

\* The segment of k / HeatSteps: [0, 0.25), [0.25, 0.5), [0.5, 0.75), [0.75, 1]
SegmentOf(k) ==
    IF 4 * k < HeatSteps THEN 1
    ELSE IF 2 * k < HeatSteps THEN 2
    ELSE IF 4 * k < 3 * HeatSteps THEN 3
    ELSE 4

\* Two inputs a <= b of getHeatmapColor in [0, 1] and in one segment
SameSegmentPair ==
    /\ Applied("getHeatmapColor")
    /\ 0 <= call.args[1]
    /\ call.args[1] <= call.args[2]
    /\ call.args[2] <= HeatSteps
    /\ SegmentOf(call.args[1]) = SegmentOf(call.args[2])

\* C13 as stated: for two inputs a <= b in the same segment, each of the red,
\* green and blue components of the colour of a is <= that of the colour of b.
C13_EveryChannelRises ==
    SameSegmentPair =>
        LET lo == RgbOf(call.result[1])
            hi == RgbOf(call.result[2])
        IN  lo.r <= hi.r /\ lo.g <= hi.g /\ lo.b <= hi.b

\* C13, amended: for two inputs a <= b in the same segment, red and green of
\* the colour of a are <= those of the colour of b; blue is <= too in the
\* segments [0, 0.25), [0.5, 0.75) and [0.75, 1], and >= in [0.25, 0.5).
C13_ChannelsMonotone ==
    SameSegmentPair =>
        LET lo == RgbOf(call.result[1])
            hi == RgbOf(call.result[2])
        IN  /\ lo.r <= hi.r
            /\ lo.g <= hi.g
            /\ IF SegmentOf(call.args[1]) = 2 THEN lo.b >= hi.b ELSE lo.b <= hi.b

C13_Witness ==
    /\ SameSegmentPair
    /\ SegmentOf(call.args[1]) = 2
    /\ RgbOf(call.result[1]).r < RgbOf(call.result[2]).r
    /\ RgbOf(call.result[1]).b > RgbOf(call.result[2]).b

\* C14: getHeatmapColor(0) is rgb(0,0,0), getHeatmapColor(1) is
\* rgb(255,255,255), every input below 0 has the colour of 0 and every input
\* above 1 has the colour of 1.
C14_EndsAndClamp ==
    Applied("getHeatmapColor") =>
        \A i \in 1..2 :
            /\ call.args[i] <= 0 =>
                    call.result[i] = <<"r", "g", "b", "(", "0", ",", "0", ",", "0", ")">>
            /\ call.args[i] >= HeatSteps =>
                    call.result[i] = <<"r", "g", "b", "(", "2", "5", "5", ",",
                                       "2", "5", "5", ",", "2", "5", "5", ")">>

C14_Witness ==
    /\ Applied("getHeatmapColor")
    /\ call.args[1] < 0
    /\ call.args[2] > HeatSteps
    /\ call.result[1] = getHeatmapColor(0, HeatSteps)
    /\ call.result[2] = getHeatmapColor(HeatSteps, HeatSteps)
    /\ call.result[1] # call.result[2]

\* C15 as stated: the tick interval of the time axis of a drawn slice is 1 s
\* when the slice lasts less than 10 s, 2 s when it lasts at least 10 s and
\* less than 30 s, and 5 s otherwise.
C15_TickInterval ==
    (frame.on /\ frame.draw) =>
        \A n \in {Len(currentTrialDataSlice)} :
            frame.tick = IF n < 10 * appState.config.samplingRate THEN 1
                         ELSE IF n < 30 * appState.config.samplingRate THEN 2
                         ELSE 5

\* C16: in scroll mode the slice handed to EEGCanvas and to the spectrogram
\* series is the whole matrix, all dataLen rows, and the start offset is 0,
\* whatever the current trial and the trial duration.
C16_ScrollShowsAll ==
    isScrollMode =>
        /\ currentTrialDataSlice = Rows(0, dataLen)
        /\ startTime = 0
        /\ viewMode = "spectrogram" =>
              spectrogramDataSeries =
                  [i \in 1..dataLen |-> ChannelValue(Row(i - 1), spectrogramChannel)]

C16_Witness ==
    /\ isScrollMode
    /\ currentTrial > 0
    /\ viewMode = "spectrogram"
    /\ pointsPerTrial < dataLen
    /\ Len(spectrogramDataSeries) = dataLen

\* C17: a pointer move or a pointer leave changes the tooltip and nothing else
\* of the viewer, and the waveform draw does not run in that step.
C17_PointerLeavesWaveform ==
    [][ (Did("handleMouseMove") \/ Did("handleMouseLeave")) =>
          /\ ~frame'.draw
          /\ UNCHANGED <<appVars, now, annVars, scaleVars, durVars, viewVars, paneWidth>> ]_vars

C17_Witness ==
    /\ trace.op = "handleMouseMove"
    /\ tooltip # NoTooltip
    /\ frame.on
    /\ ~frame.draw

\* C18 as stated: the waveform draw runs again only in a step that changes the
\* slice, the config or the gain handed to EEGCanvas (the canvas height and the
\* palette contents never change here); it does not run in a step that only
\* types a note, chooses a type, adds or deletes an annotation, or edits the
\* gain or the duration input before the value settles.
C18_DrawOnlyOnInputs ==
    [][ (frame.on /\ frame'.draw) =>
          \/ sliceChanges
          \/ appState'.config # appState.config
          \/ yScale' # yScale ]_vars

\* The Spectrogram component is on screen and has drawn its grid
SpectrogramShown == viewMode = "spectrogram" /\ specView = "drawn"

\* C19: while the spectrogram stays shown, computeSpectrogram runs in a step
\* exactly when the step brings a new slice (another trial or trial length in
\* paged mode, another paging mode), another channel or another sample rate;
\* gain edits, note edits and annotation adds and deletes do not run it.
C19_SpectrogramMemoized ==
    [][ (frame.on /\ SpectrogramShown /\ SpectrogramShown') =>
          (frame'.stft <=>
              \/ isScrollMode' # isScrollMode
              \/ ~isScrollMode /\ currentTrial' # currentTrial
              \/ ~isScrollMode /\ pointsPerTrialOf(appState'.config) # pointsPerTrial
              \/ spectrogramChannel' # spectrogramChannel
              \/ appState'.config.samplingRate # appState.config.samplingRate) ]_vars

C19_Witness ==
    /\ frame.on
    /\ SpectrogramShown
    /\ ~frame.stft
    /\ annotations # <<>>
    /\ yScale # InitialScale(Undefined)
    /\ currentTrial > 0

\* C20 as stated: every row of the matrix processFullData returns, in either
\* orientation, has exactly as many values as the declared channel count.
C20_RowsHaveChannelCount ==
    Applied("processFullData") =>
        \A t \in 1..Len(call.result[1]) : Len(call.result[1][t]) = call.args[4]

C22_ScrollNavigationInert ==
    [][ (isScrollMode /\ (Did("handlePrev") \/ Did("handleNext"))) =>
          /\ currentTrialDataSlice' = currentTrialDataSlice
          /\ startTime' = startTime
          /\ newAnn'.trialIndex = newAnn.trialIndex
          /\ newAnn'.timestamp = newAnn.timestamp ]_vars

\* C23 as stated: while the matrix is not empty, 0 <= currentTrial <=
\* totalTrials - 1 in every state, totalTrials being computed from the current
\* trial duration.
C23_TrialInRange ==
    dataLen > 0 => InRange(currentTrial, appState.config)

\* C24 as stated: every annotation of the list has, in every state,
\* timestamp = trialIndex * the current trialDurationSec, also after the trial
\* duration has been changed since the annotation was added.
C24_TimestampFollowsDuration ==
    \A k \in 1..Len(annotations) :
        annotations[k].timestamp
            = annotations[k].trialIndex * appState.config.trialDurationSec

\* C25 as stated: the annotations of the list have pairwise distinct ids in
\* every state, whatever adds and deletes came before.
C25_IdsDistinct ==
    \A i \in 1..Len(annotations) : \A j \in 1..Len(annotations) :
        i # j => annotations[i].id # annotations[j].id

\* C26 as stated: once every persistState call has completed, the IndexedDB
\* record and the JSON of the settings folder both hold the session as the last
\* operation left it (for the record: the config and the annotations, which
\* are what savePatientState writes of it).
C26_StoresNotStale ==
    (pending = <<>> /\ settingsDirHandle) =>
        /\ idbRecord.written
        /\ idbRecord.config = appState.config
        /\ idbRecord.annotations = appState.annotations
        /\ fsFile.written
        /\ Carries(fsFile, appState)

\* C27 as stated: a tooltip on display shows the time and the values of a
\* sample of the slice on display, at one and the same index of it.
C27_TooltipOfShownSlice ==
    tooltip # NoTooltip =>
        \E i \in 0..(Len(currentTrialDataSlice) - 1) :
            /\ tooltip[1].values = currentTrialDataSlice[i + 1]
            /\ tooltip[1].time.num * appState.config.samplingRate
                  = (startTime * appState.config.samplingRate + i) * tooltip[1].time.den

\* C28 as stated: Close File leaves every field of the application state but
\* patient at the value App was constructed with (status idle, default config,
\* no file name, no data, no annotations, no gain).
C28_ResetRestoresInitial ==
    [][ Did("handleReset") =>
          /\ appState' = InitialAppState(appState.patient)
          /\ dataLen' = 0 ]_vars

\* C29 as stated: every call of computeSpectrogram with windowSize >= 2 and
\* overlap >= 0 returns, the calls with overlap >= windowSize included.
C29_SpectrogramReturns == <>(call.pc = "returned")

\* C30 as stated: every tick of the time axis labelled startTime + s is drawn
\* on sample s * samplingRate of the slice on display, the sample for which
\* the pointer lookup reports the time of the label.
C30_TicksOnTheirSamples ==
    canvasShownOf(viewMode, Len(currentTrialDataSlice)) =>
        \A tick \in timeAxisTicks(Len(currentTrialDataSlice),
                                  appState.config.samplingRate, startTime) :
            /\ tick.effectiveIndex = tick.sec * appState.config.samplingRate
            /\ tick.label * appState.config.samplingRate
                  = startTime * appState.config.samplingRate + tick.effectiveIndex

====
